---- MODULE Spec2Model ----
(***************************************************************************)
(* A model of the TodoApp component of src/src/App.js: its five pieces of  *)
(* React state, the mount effect that loads the groups, the five async     *)
(* handlers (each split at its await into the part that builds and sends   *)
(* the request and the continuation that adopts the response), and the     *)
(* json-server resource store the handlers talk to.                        *)
(*                                                                         *)
(* A handler is a closure of the render it was attached in: the "groups"   *)
(* and "todoInputs" it reads after its await are the values of the render  *)
(* in which it was invoked, not the values of the state at that later      *)
(* time.  Every call in flight therefore carries its own snapshot.         *)
(***************************************************************************)
EXTENDS Naturals, Sequences, FiniteSets, TLC

\* ---------------------------------------------------------------- bounds

\* Handler invocations that send a request, over a whole run.
MaxCalls == 2
\* Ticks of the millisecond clock read by Date.now().
MaxTicks == 1
\* onChange events of the input boxes, over a whole run.
MaxEdits == 2

\* ------------------------------------------------------------------ text

\* A text is a sequence of characters; " " is the only whitespace used.
Chars == {" ", "a"}

Empty == << >>

\* What the user can leave in an input box: nothing, only whitespace, or a
\* word padded with whitespace.
Texts == {Empty, <<" ">>, <<" ", "a", " ">>}

RECURSIVE trimStart(_)
trimStart(s) ==
    IF s # Empty /\ Head(s) = " " THEN trimStart(Tail(s)) ELSE s

RECURSIVE trimEnd(_)
trimEnd(s) ==
    IF s # Empty /\ s[Len(s)] = " " THEN trimEnd(SubSeq(s, 1, Len(s) - 1)) ELSE s

\* String.prototype.trim
trim(s) == trimEnd(trimStart(s))

\* ------------------------------------------------------------------ data

FILTERS == {"All", "Active", "Completed"}

\* toLocaleDateString of the day the run happens on.
Today == "Nov 2, 2026"

Todo(i, t, c) == [id |-> i, text |-> t, completed |-> c]

Group(i, t, d, ts) == [id |-> i, title |-> t, createdAt |-> d, todos |-> ts]

\* The value of an absent response body.
NoGroup == Group(0, Empty, "", << >>)

\* The contents the store may hold when the page is opened.
InitStores ==
    { << >>,
      << Group(1, <<"a">>, Today, << Todo(1, <<"a">>, FALSE), Todo(2, <<"a">>, TRUE) >>) >>,
      << Group(1, <<"a">>, Today, << Todo(1, <<"a">>, FALSE) >>),
         Group(2, <<"a">>, Today, << >>) >> }

\* The ids of the todos the store may hold when the page is opened.
StoredTodoIds ==
    UNION { UNION { {st[i].todos[k].id : k \in 1..Len(st[i].todos)} : i \in 1..Len(st) }
            : st \in InitStores }

\* Date.now() when the page is opened: later than every stored todo's id.
ClockStart == (CHOOSE m \in StoredTodoIds : \A x \in StoredTodoIds : x <= m) + 1

\* {}: no group has a todo input text yet.
NoInputs == [k \in {} |-> Empty]

VARIABLES
    groups,      \* useState([])    the groups shown
    groupInput,  \* useState("")    the group-title input
    filter,      \* useState("All")
    todoInputs,  \* useState({})    group id -> text of its todo input
    loading,     \* useState(true)
    loadPc,      \* position in the mount effect's promise chain
    loadData,    \* the body of the list response, once it has arrived
    alerts,      \* number of alert() calls
    fetches,     \* number of list fetches issued
    calls,       \* handler invocations suspended at their await
    nCalls,      \* number of handler invocations that sent a request
    store,       \* the groups held by the resource store
    nextId,      \* the id the store gives to the next created group
    clock,       \* Date.now()
    failures,    \* number of handler invocations whose request failed
    nEdits       \* number of onChange events of the input boxes

vars == << groups, groupInput, filter, todoInputs, loading, loadPc, loadData,
           alerts, fetches, calls, nCalls, store, nextId, clock, failures, nEdits >>

ui == << groups, groupInput, filter, todoInputs, loading >>
load == << loadPc, loadData, alerts, fetches >>
net == << calls, nCalls, failures >>
server == << store, nextId >>

Init ==
    /\ groups = << >>
    /\ groupInput = Empty
    /\ filter = "All"
    /\ todoInputs = NoInputs
    /\ loading = TRUE
    /\ loadPc = "mount"
    /\ loadData = << >>
    /\ alerts = 0
    /\ fetches = 0
    /\ calls = {}
    /\ nCalls = 0
    /\ store \in InitStores
    /\ nextId = Len(store) + 1
    /\ clock = ClockStart
    /\ failures = 0
    /\ nEdits = 0

\* -------------------------------------------------------- the mount effect

\* useEffect(..., []): runs once, after the first render; sends GET /groups.
Mount ==
    /\ loadPc = "mount"
    /\ loadPc' = "fetching"
    /\ fetches' = fetches + 1
    /\ UNCHANGED << ui, loadData, alerts, net, server, clock, nEdits >>

\* The store answers the list request with what it holds; res.json() parses it.
FetchResolve ==
    /\ loadPc = "fetching"
    /\ loadPc' = "then"
    /\ loadData' = store
    /\ UNCHANGED << ui, alerts, fetches, net, server, clock, nEdits >>

\* The list request fails (the store is unreachable, or its body is no JSON).
FetchReject ==
    /\ loadPc = "fetching"
    /\ loadPc' = "catch"
    /\ UNCHANGED << ui, loadData, alerts, fetches, net, server, clock, nEdits >>

\* .then(data => setGroups(data))
LoadThen ==
    /\ loadPc = "then"
    /\ groups' = loadData
    /\ loadPc' = "finallyOk"
    /\ UNCHANGED << groupInput, filter, todoInputs, loading, loadData, alerts,
                    fetches, net, server, clock, nEdits >>

\* The chain with setLoading(false) in its .then instead of a .finally: a
\* failed load alerts and ends there.
LoadCatchWithoutFinally ==
    /\ loadPc = "catch"
    /\ alerts' = alerts + 1
    /\ loadPc' = "doneErr"
    /\ UNCHANGED << ui, loadData, fetches, net, server, clock, nEdits >>

\* .catch(() => alert(...))
LoadCatch ==
    /\ loadPc = "catch"
    /\ alerts' = alerts + 1
    /\ loadPc' = "finallyErr"
    /\ UNCHANGED << ui, loadData, fetches, net, server, clock, nEdits >>

\* .finally(() => setLoading(false))
LoadFinally ==
    /\ loadPc \in {"finallyOk", "finallyErr"}
    /\ loading' = FALSE
    /\ loadPc' = IF loadPc = "finallyOk" THEN "doneOk" ELSE "doneErr"
    /\ UNCHANGED << groups, groupInput, filter, todoInputs, loadData, alerts,
                    fetches, net, server, clock, nEdits >>

\* The controls exist only in the render that follows loading (the early
\* return of the "Loading..." view).
Rendered == ~loading

\* ------------------------------------------------------ inputs and filter

\* onChange of the group-title input, which fires when the text in the box
\* changes: setGroupInput(e.target.value)
setGroupInput(t) ==
    /\ Rendered
    /\ t # groupInput
    /\ nEdits < MaxEdits
    /\ nEdits' = nEdits + 1
    /\ groupInput' = t
    /\ UNCHANGED << groups, filter, todoInputs, loading, load, net, server, clock >>

\* { ...todoInputs, [key]: value }
Spread(inputs, key, value) ==
    [k \in DOMAIN inputs \cup {key} |-> IF k = key THEN value ELSE inputs[k]]

\* todoInputs[groupId] || ""
InputOf(inputs, groupId) ==
    IF groupId \in DOMAIN inputs THEN inputs[groupId] ELSE Empty

GroupIds(gs) == {gs[i].id : i \in 1..Len(gs)}

\* onChange of a group's todo input: setTodoInputs({...todoInputs, [group.id]: value})
setTodoInputs(groupId, t) ==
    /\ Rendered
    /\ groupId \in GroupIds(groups)
    /\ t # InputOf(todoInputs, groupId)
    /\ nEdits < MaxEdits
    /\ nEdits' = nEdits + 1
    /\ todoInputs' = Spread(todoInputs, groupId, t)
    /\ UNCHANGED << groups, groupInput, filter, loading, load, net, server, clock >>

\* A filter button that also reloads the groups.
setFilterRefetching(f) ==
    /\ Rendered
    /\ filter' = f
    /\ fetches' = fetches + 1
    /\ UNCHANGED << groups, groupInput, todoInputs, loading, loadPc, loadData,
                    alerts, net, server, clock, nEdits >>

\* onClick of a filter button: setFilter(f)
setFilter(f) ==
    /\ Rendered
    /\ filter' = f
    /\ UNCHANGED << groups, groupInput, todoInputs, loading, load, net, server, clock, nEdits >>

\* getFilteredTodos testing for a name that is none of FILTERS, so that
\* Completed falls through to the whole list.
FilteredByMisspelt(f, todos) ==
    IF f = "Active" THEN SelectSeq(todos, LAMBDA t : ~t.completed)
    ELSE IF f = "Complete" THEN SelectSeq(todos, LAMBDA t : t.completed)
    ELSE todos

\* getFilteredTodos of a render whose filter is f.
FilteredBy(f, todos) ==
    IF f = "Active" THEN SelectSeq(todos, LAMBDA t : ~t.completed)
    ELSE IF f = "Completed" THEN SelectSeq(todos, LAMBDA t : t.completed)
    ELSE todos

getFilteredTodos(todos) == FilteredBy(filter, todos)

\* Date.now() moves on.
Tick ==
    /\ clock < ClockStart + MaxTicks
    /\ clock' = clock + 1
    /\ UNCHANGED << ui, load, net, server, nEdits >>

\* ------------------------------------------------------- requests in flight

\* A handler suspended at its await: the request it sent (method, the id in
\* the URL, the JSON body's fields) and what its continuation reads of the
\* render it was invoked in: that render's groups and, in addTodo alone,
\* that render's todoInputs.
Call(op, method, groupId, title, createdAt, todos) ==
    [ n |-> nCalls + 1, op |-> op, method |-> method, groupId |-> groupId,
      title |-> title, createdAt |-> createdAt, todos |-> todos,
      groups |-> groups,
      todoInputs |-> IF op = "addTodo" THEN todoInputs ELSE NoInputs,
      st |-> "sent", resp |-> NoGroup ]

\* fetch(url, {method, body}): one more request on the wire.
Send(c) ==
    /\ nCalls < MaxCalls
    /\ nCalls' = nCalls + 1
    /\ calls' = calls \cup {c}
    /\ failures' = failures

\* groups.find(g => g.id === groupId): the first match.
find(gs, groupId) ==
    gs[CHOOSE i \in 1..Len(gs) :
          /\ gs[i].id = groupId
          /\ \A j \in 1..(i - 1) : gs[j].id # groupId]

\* groups.map(g => g.id === groupId ? updated : g)
replaceGroup(gs, groupId, updated) ==
    [i \in 1..Len(gs) |-> IF gs[i].id = groupId THEN updated ELSE gs[i]]

\* groups.filter(g => g.id !== groupId)
removeGroup(gs, groupId) == SelectSeq(gs, LAMBDA g : g.id # groupId)

\* -------------------------------------------------------- group operations

\* addGroup testing the raw input instead of the trimmed one.
addGroupUntrimmedTest ==
    /\ Rendered
    /\ IF groupInput = Empty
       THEN UNCHANGED net
       ELSE Send(Call("addGroup", "POST", 0, trim(groupInput), Today, << >>))
    /\ UNCHANGED << ui, load, server, clock, nEdits >>

\* addGroup clearing the input before its await instead of after it.
addGroupClearingEarly ==
    /\ Rendered
    /\ LET title == trim(groupInput) IN
         IF title = Empty
         THEN UNCHANGED << net, groupInput >>
         ELSE /\ Send(Call("addGroup", "POST", 0, title, Today, << >>))
              /\ groupInput' = Empty
    /\ UNCHANGED << groups, filter, todoInputs, loading, load, server, clock, nEdits >>

\* addGroup up to its await: the trimmed title, the early return, the POST.
addGroup ==
    /\ Rendered
    /\ LET title == trim(groupInput) IN
         IF title = Empty
         THEN UNCHANGED net
         ELSE Send(Call("addGroup", "POST", 0, title, Today, << >>))
    /\ UNCHANGED << ui, load, server, clock, nEdits >>

\* The groups addGroup sets once res.json() has given it the saved group.
addGroupGroups(c) == Append(c.groups, c.resp)

\* addGroup after its awaits: setGroups([...groups, saved]); setGroupInput("").
addGroupResume(c) ==
    /\ c.op = "addGroup" /\ c.st = "served"
    /\ groups' = addGroupGroups(c)
    /\ groupInput' = Empty
    /\ calls' = calls \ {c}
    /\ UNCHANGED << filter, todoInputs, loading, load, nCalls, failures, server, clock, nEdits >>

\* deleteGroup up to its await: the DELETE of the group's URL.
deleteGroup(groupId) ==
    /\ Rendered
    /\ groupId \in GroupIds(groups)
    /\ Send(Call("deleteGroup", "DELETE", groupId, Empty, "", << >>))
    /\ UNCHANGED << ui, load, server, clock, nEdits >>

\* deleteGroup with the test of its filter inverted (=== for !==).
deleteGroupGroupsInverted(c) == SelectSeq(c.groups, LAMBDA g : g.id = c.groupId)

\* The groups deleteGroup sets once its fetch has resolved.
deleteGroupGroups(c) == removeGroup(c.groups, c.groupId)

\* deleteGroup after its await: setGroups(groups.filter(...)).
deleteGroupResume(c) ==
    /\ c.op = "deleteGroup" /\ c.st = "served"
    /\ groups' = deleteGroupGroups(c)
    /\ calls' = calls \ {c}
    /\ UNCHANGED << groupInput, filter, todoInputs, loading, load, nCalls, failures,
                    server, clock, nEdits >>

\* --------------------------------------------------------- todo operations

\* addTodo putting the new todo first: [{...}, ...group.todos].
addTodoTodosPrepended(todos, text) == << Todo(clock, text, FALSE) >> \o todos

\* [...group.todos, { id: Date.now(), text, completed: false }]
addTodoTodos(todos, text) == Append(todos, Todo(clock, text, FALSE))

\* addTodo up to its await: the trimmed text, the early return, the PATCH.
addTodo(groupId) ==
    /\ Rendered
    /\ groupId \in GroupIds(groups)
    /\ LET text == trim(InputOf(todoInputs, groupId)) IN
         IF text = Empty
         THEN UNCHANGED net
         ELSE Send(Call("addTodo", "PATCH", groupId, Empty, "",
                        addTodoTodos(find(groups, groupId).todos, text)))
    /\ UNCHANGED << ui, load, server, clock, nEdits >>

\* A todo handler adding the updated group at the end instead of putting it
\* in the place of the one it updates: [...groups, updated].
todoGroupsAppending(c) == Append(c.groups, c.resp)

\* The groups a todo handler sets once res.json() has given it the updated group.
todoGroups(c) == replaceGroup(c.groups, c.groupId, c.resp)

\* The todoInputs addTodo sets after that: { ...todoInputs, [groupId]: "" }.
addTodoInputs(c) == Spread(c.todoInputs, c.groupId, Empty)

\* addTodo after its awaits.
addTodoResume(c) ==
    /\ c.op = "addTodo" /\ c.st = "served"
    /\ groups' = todoGroups(c)
    /\ todoInputs' = addTodoInputs(c)
    /\ calls' = calls \ {c}
    /\ UNCHANGED << groupInput, filter, loading, load, nCalls, failures, server, clock, nEdits >>

\* toggleTodo marking the todo completed instead of flipping it.
toggleTodoTodosSetsTrue(todos, todoId) ==
    [i \in 1..Len(todos) |->
        IF todos[i].id = todoId
        THEN [todos[i] EXCEPT !.completed = TRUE]
        ELSE todos[i]]

\* group.todos.map(t => t.id === todoId ? { ...t, completed: !t.completed } : t)
toggleTodoTodos(todos, todoId) ==
    [i \in 1..Len(todos) |->
        IF todos[i].id = todoId
        THEN [todos[i] EXCEPT !.completed = ~todos[i].completed]
        ELSE todos[i]]

\* deleteTodo with the test of its filter inverted (=== for !==).
deleteTodoTodosInverted(todos, todoId) == SelectSeq(todos, LAMBDA t : t.id = todoId)

\* group.todos.filter(t => t.id !== todoId)
deleteTodoTodos(todos, todoId) == SelectSeq(todos, LAMBDA t : t.id # todoId)

\* The todos that have a checkbox and a delete button in group card i.
ShownTodoIds(i) ==
    LET shown == getFilteredTodos(groups[i].todos) IN
    {shown[k].id : k \in 1..Len(shown)}

\* toggleTodo showing its change at once: setGroups before the await.
toggleTodoOptimistic(groupId, todoId) ==
    /\ Rendered
    /\ \E i \in 1..Len(groups) : groups[i].id = groupId /\ todoId \in ShownTodoIds(i)
    /\ Send(Call("toggleTodo", "PATCH", groupId, Empty, "",
                 toggleTodoTodos(find(groups, groupId).todos, todoId)))
    /\ groups' = replaceGroup(groups, groupId,
                    [find(groups, groupId) EXCEPT
                        !.todos = toggleTodoTodos(find(groups, groupId).todos, todoId)])
    /\ UNCHANGED << groupInput, filter, todoInputs, loading, load, server, clock, nEdits >>

\* toggleTodo up to its await.
toggleTodo(groupId, todoId) ==
    /\ Rendered
    /\ \E i \in 1..Len(groups) : groups[i].id = groupId /\ todoId \in ShownTodoIds(i)
    /\ Send(Call("toggleTodo", "PATCH", groupId, Empty, "",
                 toggleTodoTodos(find(groups, groupId).todos, todoId)))
    /\ UNCHANGED << ui, load, server, clock, nEdits >>

\* deleteTodo up to its await.
deleteTodo(groupId, todoId) ==
    /\ Rendered
    /\ \E i \in 1..Len(groups) : groups[i].id = groupId /\ todoId \in ShownTodoIds(i)
    /\ Send(Call("deleteTodo", "PATCH", groupId, Empty, "",
                 deleteTodoTodos(find(groups, groupId).todos, todoId)))
    /\ UNCHANGED << ui, load, server, clock, nEdits >>

\* toggleTodo and deleteTodo after their awaits: setGroups(groups.map(...)).
todoResume(c) ==
    /\ c.op \in {"toggleTodo", "deleteTodo"} /\ c.st = "served"
    /\ groups' = todoGroups(c)
    /\ calls' = calls \ {c}
    /\ UNCHANGED << groupInput, filter, todoInputs, loading, load, nCalls, failures,
                    server, clock, nEdits >>

\* --------------------------------------------------------------- the store

\* POST /groups: the body, stored under an id of the store's choosing.
Created(c) == Group(nextId, c.title, c.createdAt, c.todos)

\* PATCH /groups/{id}: the stored group with the body's fields written over it.
Patched(c) == [find(store, c.groupId) EXCEPT !.todos = c.todos]

\* The store processes a request and answers it.
Serve(c) ==
    /\ c.st = "sent"
    /\ \/ /\ c.method = "POST"
          /\ store' = Append(store, Created(c))
          /\ nextId' = nextId + 1
          /\ calls' = (calls \ {c}) \cup {[c EXCEPT !.st = "served", !.resp = Created(c)]}
       \/ /\ c.method = "PATCH"
          /\ c.groupId \in GroupIds(store)
          /\ store' = replaceGroup(store, c.groupId, Patched(c))
          /\ nextId' = nextId
          /\ calls' = (calls \ {c}) \cup {[c EXCEPT !.st = "served", !.resp = Patched(c)]}
       \/ /\ c.method = "DELETE"
          /\ store' = removeGroup(store, c.groupId)
          /\ nextId' = nextId
          /\ calls' = (calls \ {c}) \cup {[c EXCEPT !.st = "served"]}
    /\ UNCHANGED << ui, load, nCalls, failures, clock, nEdits >>

\* A handler that catches its failed request the way the mount effect does.
RejectAlerting(c) ==
    /\ calls' = calls \ {c}
    /\ failures' = failures + 1
    /\ alerts' = alerts + 1
    /\ UNCHANGED << ui, loadPc, loadData, fetches, nCalls, server, clock, nEdits >>

\* A failing request whose handler clears its input all the same, as it
\* would with the clearing in a finally block.
RejectClearingInput(c) ==
    /\ calls' = calls \ {c}
    /\ failures' = failures + 1
    /\ groupInput' = IF c.op = "addGroup" THEN Empty ELSE groupInput
    /\ todoInputs' = IF c.op = "addTodo"
                     THEN Spread(todoInputs, c.groupId, Empty)
                     ELSE todoInputs
    /\ UNCHANGED << groups, filter, loading, load, nCalls, server, clock, nEdits >>

\* A request fails, before or after the store has processed it: the await
\* throws, the handler has no catch, and its continuation never runs.
Reject(c) ==
    /\ calls' = calls \ {c}
    /\ failures' = failures + 1
    /\ UNCHANGED << ui, load, nCalls, server, clock, nEdits >>

\* ------------------------------------------------------------ the behaviour

Next ==
    \/ Mount
    \/ FetchResolve
    \/ FetchReject
    \/ LoadThen
    \/ LoadCatch
    \/ LoadFinally
    \/ \E t \in Texts : setGroupInput(t)
    \/ \E g \in GroupIds(groups), t \in Texts : setTodoInputs(g, t)
    \/ \E f \in FILTERS : setFilter(f)
    \/ Tick
    \/ addGroup
    \/ \E g \in GroupIds(groups) : deleteGroup(g)
    \/ \E g \in GroupIds(groups) : addTodo(g)
    \/ \E g \in GroupIds(groups), t \in 1..(ClockStart + MaxTicks) : toggleTodo(g, t)
    \/ \E g \in GroupIds(groups), t \in 1..(ClockStart + MaxTicks) : deleteTodo(g, t)
    \/ \E c \in calls : Serve(c)
    \/ \E c \in calls : Reject(c)
    \/ \E c \in calls : addGroupResume(c)
    \/ \E c \in calls : deleteGroupResume(c)
    \/ \E c \in calls : addTodoResume(c)
    \/ \E c \in calls : todoResume(c)

Spec == Init /\ [][Next]_vars

\* ------------------------------------------------------------ vocabulary

\* The requests a step puts on the wire.
Sent == {c \in calls' : c.st = "sent" /\ c \notin calls}

\* The step runs the continuation of call c: c had its response and leaves
\* the calls in flight without having failed.
Adopts(c) == c \in calls /\ c.st = "served" /\ c \notin calls' /\ failures' = failures

\* The todos of the group a handler finds under groupId in the current render.
CurrentTodos(groupId) == find(groups, groupId).todos

\* The k-th smallest member of a set of positions.
Kth(idx, k) == CHOOSE i \in idx : Cardinality({j \in idx : j <= i}) = k

\* The entries of a sequence at the positions idx, in their original order.
Pick(seq, idx) == [k \in 1..Cardinality(idx) |-> seq[Kth(idx, k)]]

TodoIds(todos) == {todos[i].id : i \in 1..Len(todos)}

\* ------------------------------------------------------------------- C1
\* C1: addGroup with a non-blank title sends exactly one POST carrying the
\* trimmed title and no todos; the step that adopts its response makes groups
\* the groups held just before that step followed by the returned group, and
\* empties groupInput.
C1_AddGroupAppendsToCurrent ==
    [][ /\ \A c \in Sent : c.op = "addGroup" =>
              /\ calls' = calls \cup {c}
              /\ c.method = "POST"
              /\ c.title = trim(groupInput) /\ c.title # Empty
              /\ c.todos = << >>
        /\ \A c \in calls : (c.op = "addGroup" /\ Adopts(c)) =>
              /\ groups' = Append(groups, c.resp)
              /\ groupInput' = Empty ]_vars

\* ------------------------------------------------------------------- C2
\* C2: addTodo(groupId) with a non-blank text sends exactly one PATCH for
\* groupId whose todos are the group's current todos, in order, followed by
\* one new todo with the trimmed text and completed = false; after the step
\* that adopts its response the group held under groupId is the returned
\* group and todoInputs[groupId] is the empty string.
C2_AddTodoAppendsAndAdopts ==
    [][ /\ \A c \in Sent : c.op = "addTodo" =>
              LET cur == CurrentTodos(c.groupId)
                  new == c.todos[Len(c.todos)]
              IN  /\ calls' = calls \cup {c}
                  /\ c.method = "PATCH"
                  /\ c.groupId \in GroupIds(groups)
                  /\ Len(c.todos) = Len(cur) + 1
                  /\ \A i \in 1..Len(cur) : c.todos[i] = cur[i]
                  /\ new.text = trim(InputOf(todoInputs, c.groupId))
                  /\ new.text # Empty
                  /\ new.completed = FALSE
        /\ \A c \in calls : (c.op = "addTodo" /\ Adopts(c)) =>
              /\ \E i \in 1..Len(groups') : groups'[i] = c.resp
              /\ \A i \in 1..Len(groups') :
                    groups'[i].id = c.groupId => groups'[i] = c.resp
              /\ c.groupId \in DOMAIN todoInputs'
              /\ todoInputs'[c.groupId] = Empty ]_vars

\* An addTodo response has been adopted: a todo made by this page (its id is
\* a reading of the clock) is shown, and its input box has been emptied.
C2_Witness ==
    /\ calls = {} /\ failures = 0
    /\ \E i \in 1..Len(groups) :
          /\ \E k \in 1..Len(groups[i].todos) : groups[i].todos[k].id >= ClockStart
          /\ Len(groups[i].todos) >= 2
          /\ groups[i].id \in DOMAIN todoInputs
          /\ todoInputs[groups[i].id] = Empty

\* ------------------------------------------------------------------- C3
\* C3: deleteGroup(groupId) sends one DELETE addressed to the id of a group
\* that is shown; after the step that adopts its completion, groups holds no
\* group with that id.
C3_DeleteGroupRemoves ==
    [][ /\ \A c \in Sent : c.op = "deleteGroup" =>
              /\ calls' = calls \cup {c}
              /\ c.method = "DELETE"
              /\ c.groupId \in GroupIds(groups)
        /\ \A c \in calls : (c.op = "deleteGroup" /\ Adopts(c)) =>
              c.groupId \notin GroupIds(groups') ]_vars

\* A deletion has been adopted: a group that was loaded is gone from the
\* store and from the page, and no request failed or is still in flight.
C3_Witness ==
    /\ calls = {} /\ failures = 0 /\ loadPc = "doneOk"
    /\ \E i \in 1..Len(loadData) :
          /\ loadData[i].id \notin GroupIds(store)
          /\ loadData[i].id \notin GroupIds(groups)
    /\ groups # << >>

\* ------------------------------------------------------------------- C4
\* C4: toggleTodo(groupId, todoId) sends a PATCH for groupId whose todos have
\* the length, ids, texts and order of the group's current todos, with
\* completed flipped in the todo whose id is todoId and unchanged in every
\* other todo.
C4_ToggleFlipsOne ==
    [][ \A c \in Sent : c.op = "toggleTodo" =>
          LET cur == CurrentTodos(c.groupId) IN
          /\ calls' = calls \cup {c}
          /\ c.method = "PATCH"
          /\ Len(c.todos) = Len(cur)
          /\ \E todoId \in TodoIds(cur) :
                \A i \in 1..Len(cur) :
                   /\ c.todos[i].id = cur[i].id
                   /\ c.todos[i].text = cur[i].text
                   /\ c.todos[i].completed =
                         IF cur[i].id = todoId THEN ~cur[i].completed
                                               ELSE cur[i].completed ]_vars

\* A toggle of a completed todo is on the wire, for a group with another todo.
C4_Witness ==
    \E c \in calls :
       /\ c.op = "toggleTodo" /\ c.st = "sent"
       /\ Len(c.todos) >= 2
       /\ \A i \in 1..Len(c.todos) : ~c.todos[i].completed

\* ------------------------------------------------------------------- C5
\* C5: deleteTodo(groupId, todoId) sends a PATCH for groupId whose todos are
\* the group's current todos without the entry whose id is todoId, the
\* remaining entries unchanged and in their original relative order.
C5_DeleteTodoRemovesOne ==
    [][ \A c \in Sent : c.op = "deleteTodo" =>
          LET cur == CurrentTodos(c.groupId) IN
          /\ calls' = calls \cup {c}
          /\ c.method = "PATCH"
          /\ \E todoId \in TodoIds(cur) :
                c.todos = Pick(cur, {i \in 1..Len(cur) : cur[i].id # todoId}) ]_vars

\* A deletion of the first of two todos is on the wire.
C5_Witness ==
    \E c \in calls :
       /\ c.op = "deleteTodo" /\ c.st = "sent"
       /\ Len(c.groups) >= 1
       /\ \E i \in 1..Len(c.groups) :
             /\ c.groups[i].id = c.groupId
             /\ Len(c.groups[i].todos) = 2
             /\ c.todos = << c.groups[i].todos[2] >>

\* The promise callbacks of the mount effect are microtasks: once one is
\* ready to run, it runs.
FairSpec ==
    Spec /\ WF_vars(LoadThen) /\ WF_vars(LoadCatch) /\ WF_vars(LoadFinally)

\* ------------------------------------------------------------------- C6
\* C6: addGroup with an empty or whitespace-only groupInput, and
\* addTodo(groupId) with an empty, missing or whitespace-only
\* todoInputs[groupId], can be invoked and can do nothing but return: no
\* request is sent, and groups, groupInput and todoInputs stay as they are.
C6_BlankInputIsNoOp ==
    Rendered =>
      /\ trim(groupInput) = Empty =>
            /\ ENABLED addGroup
            /\ ~ENABLED (addGroup /\ ~UNCHANGED << groups, groupInput, todoInputs,
                                                  calls, nCalls >>)
      /\ \A g \in GroupIds(groups) :
            trim(InputOf(todoInputs, g)) = Empty =>
               /\ ENABLED addTodo(g)
               /\ ~ENABLED (addTodo(g) /\ ~UNCHANGED << groups, groupInput, todoInputs,
                                                       calls, nCalls >>)

\* The page shows a whitespace-only group input, a group whose todo input is
\* whitespace-only and a group whose todo input was never typed into, and
\* another request could still be sent.
C6_Witness ==
    /\ Rendered /\ nCalls < MaxCalls
    /\ groupInput # Empty /\ trim(groupInput) = Empty
    /\ \E g \in GroupIds(groups) : g \notin DOMAIN todoInputs
    /\ \E g \in DOMAIN todoInputs :
          /\ g \in GroupIds(groups)
          /\ todoInputs[g] # Empty /\ trim(todoInputs[g]) = Empty

\* ------------------------------------------------------------------- C7
\* C7: loading is true at startup; once the list fetch has settled, either
\* way, loading eventually becomes false; at the step that makes it false,
\* groups is the returned list on the success path and empty on the failure
\* path.
C7_LoadingClears ==
    /\ loading = TRUE
    /\ (loadPc \in {"then", "catch"}) ~> ~loading
    /\ [][ (loading /\ ~loading') =>
              IF loadPc = "finallyOk" THEN groups' = loadData /\ loadData = store
                                      ELSE groups' = << >> ]_vars

\* The failure path has run to its end: the list fetch was rejected and the
\* page is interactive, with no groups.
C7_Witness == loadPc = "doneErr" /\ ~loading /\ groups = << >> /\ store # << >>

\* ------------------------------------------------------------------- C8
\* C8: alert() has been called exactly once if the list fetch was rejected
\* and never otherwise (so not when it succeeded and not when a mutating
\* request failed); the list fetch is sent once, at mount, and never again.
C8_OneAlertOneFetch ==
    /\ fetches = (IF loadPc = "mount" THEN 0 ELSE 1)
    /\ alerts = (IF loadPc \in {"finallyErr", "doneErr"} THEN 1 ELSE 0)

\* The list fetch was rejected, and later a mutating request failed too.
C8_Witness == loadPc = "doneErr" /\ alerts = 1 /\ failures >= 1

\* ------------------------------------------------------------------- C9
\* Todo sequences for the filter: every sequence of up to MaxTodos todos
\* drawn from two ids and both values of completed.
MaxTodos == 3

TodoPool == {Todo(i, <<"a">>, b) : i \in {1, 2}, b \in BOOLEAN}

TodoSeqs == UNION {[1..n -> TodoPool] : n \in 0..MaxTodos}

\* The page after a successful load of one group with any of those todos.
FilterInit ==
    /\ \E ts \in TodoSeqs : groups = << Group(1, <<"a">>, Today, ts) >>
    /\ groupInput = Empty
    /\ filter = "All"
    /\ todoInputs = NoInputs
    /\ loading = FALSE
    /\ loadPc = "doneOk"
    /\ loadData = groups
    /\ alerts = 0
    /\ fetches = 1
    /\ calls = {}
    /\ nCalls = 0
    /\ failures = 0
    /\ store = groups
    /\ nextId = Len(store) + 1
    /\ clock = ClockStart
    /\ nEdits = 0

FilterNext == \E f \in FILTERS : setFilter(f)

FilterSpec == FilterInit /\ [][FilterNext]_vars

\* C9: the todos shown for a group are the whole sequence under All, exactly
\* the todos with completed = false in their original order under Active,
\* and exactly those with completed = true in their original order under
\* Completed; Active and Completed split the sequence between them.
C9_FilterProjection ==
    \A i \in 1..Len(groups) :
       LET ts == groups[i].todos
           shown == getFilteredTodos(ts)
           at(b) == {k \in 1..Len(ts) : ts[k].completed = b}
       IN  /\ filter = "All" => shown = ts
           /\ filter = "Active" => shown = Pick(ts, at(FALSE))
           /\ filter = "Completed" => shown = Pick(ts, at(TRUE))
           /\ Len(FilteredBy("Active", ts)) + Len(FilteredBy("Completed", ts)) = Len(ts)
           /\ FilteredBy("All", ts) = ts

\* Completed is selected for a group of three todos of which some but not
\* all are completed.
C9_Witness ==
    /\ filter = "Completed"
    /\ Len(groups[1].todos) = 3
    /\ Len(getFilteredTodos(groups[1].todos)) \in {1, 2}

\* ------------------------------------------------------------------ C10
\* C10: a click on a filter button is always possible on the rendered page
\* and can only set filter to that button's mode: it sends no request and
\* leaves groups, groupInput, todoInputs and loading as they are, also while
\* requests are in flight.
C10_SetFilterOnlySetsFilter ==
    Rendered =>
      \A f \in FILTERS :
         /\ ENABLED setFilter(f)
         /\ ~ENABLED (setFilter(f) /\
                        \/ filter' # f
                        \/ ~UNCHANGED << groups, groupInput, todoInputs, loading,
                                         calls, nCalls, fetches, store >>)

\* A filter other than the initial one is selected while a request is in flight.
C10_Witness == Rendered /\ filter # "All" /\ \E c \in calls : c.st = "sent"

\* ------------------------------------------------------------------ C11
\* The count with the filter applied first: filteredTodos.filter(...).length.
remainingOfShown(todos) ==
    Len(SelectSeq(getFilteredTodos(todos), LAMBDA t : ~t.completed))

\* const remaining = group.todos.filter(t => !t.completed).length
remaining(todos) == Len(SelectSeq(todos, LAMBDA t : ~t.completed))

\* group.todos.length > 0 && <p className="group-footer">
footerShown(todos) == Len(todos) > 0

\* C11: under every filter mode, the remaining count of a group is the number
\* of todos with completed = false in its whole todos sequence, and the
\* footer is shown exactly when the group has at least one todo, however
\* many todos the filter leaves visible.
C11_RemainingCountsAllTodos ==
    \A i \in 1..Len(groups) :
       LET ts == groups[i].todos IN
       /\ remaining(ts) = Cardinality({k \in 1..Len(ts) : ts[k].completed = FALSE})
       /\ footerShown(ts) <=> ts # << >>

\* Completed is selected, the group has only uncompleted todos, so none is
\* visible, and the footer still counts all three.
C11_Witness ==
    /\ filter = "Completed"
    /\ getFilteredTodos(groups[1].todos) = << >>
    /\ footerShown(groups[1].todos)
    /\ remaining(groups[1].todos) = 3

\* ------------------------------------------------------------------ C12
\* C12: a step in which a mutating request fails changes nothing the page
\* holds: groups stays as it was, and groupInput and every todoInputs entry
\* keep their text, so the input of the failed addGroup or addTodo is not
\* cleared.
C12_FailureChangesNothing ==
    [][\A c \in calls :
          (c \notin calls' /\ failures' = failures + 1)
             => UNCHANGED << groups, groupInput, todoInputs, filter, loading >>]_vars

\* Every request so far was an addGroup that failed: the list is still the
\* empty one that was loaded and the title is still in the input.
C12_Witness ==
    /\ loadPc = "doneOk" /\ groups = << >>
    /\ nCalls >= 1 /\ failures = nCalls /\ calls = {}
    /\ trim(groupInput) # Empty

\* ------------------------------------------------------------------ C13
\* C13: in every reachable state, whatever the order in which overlapping
\* requests were served and adopted, no two groups in the list have the
\* same id.
C13_GroupIdsUnique ==
    \A i, j \in 1..Len(groups) : groups[i].id = groups[j].id => i = j

\* Two requests have been issued and adopted and the list has at least two
\* groups.
C13_Witness ==
    /\ nCalls = 2 /\ calls = {} /\ failures = 0
    /\ Len(groups) >= 2

\* ------------------------------------------------------------------ C14
\* C14: in every reachable state, within each group no two todos have the
\* same id.
C14_TodoIdsUnique ==
    \A g \in 1..Len(groups) :
       \A i, j \in 1..Len(groups[g].todos) :
          groups[g].todos[i].id = groups[g].todos[j].id => i = j

\* ------------------------------------------------------------------ C15
TodoLevel(c) == c.op \in {"addTodo", "toggleTodo", "deleteTodo"}

\* The number of responses whose continuation has run so far.
Adopted == nCalls - Cardinality(calls) - failures

\* The todo lists one todo-level handler can build from the list todos: one
\* todo appended, one id's todos flipped, or one id's todos removed.
OneChange(todos) ==
    {Append(todos, Todo(k, trim(x), FALSE)) :
        k \in ClockStart..(ClockStart + MaxTicks), x \in {t \in Texts : trim(t) # Empty}}
    \cup {toggleTodoTodos(todos, t) : t \in TodoIds(todos)}
    \cup {deleteTodoTodos(todos, t) : t \in TodoIds(todos)}

\* C15: a todo-level request issued while another on the same group is in
\* flight, no response having been adopted since the load, carries the same
\* groups snapshot as the first and its todos are one change away from the
\* first one's pre-change todos; and adopting a todo-level response leaves
\* under that id the group the response returned, whose todos are one
\* change away from the adopted call's own snapshot, so after both are
\* adopted the group is the last adopted one's and the other change is
\* absent.
C15_LastAdoptedWins ==
    [][/\ \A d \in Sent : \A c \in calls :
             (TodoLevel(c) /\ TodoLevel(d) /\ c.groupId = d.groupId /\ Adopted = 0)
                => /\ d.groups = c.groups
                   /\ d.todos \in OneChange(find(c.groups, c.groupId).todos)
       /\ \A c \in calls :
             (TodoLevel(c) /\ Adopts(c))
                => /\ find(groups', c.groupId) = c.resp
                   /\ c.resp.todos \in OneChange(find(c.groups, c.groupId).todos)]_vars

\* Two todo-level requests on the only group both succeeded and were
\* adopted, and the page holds other todos than the store: the response
\* adopted last was not the one the store served last.
C15_Witness ==
    /\ Len(loadData) = 1 /\ Len(store) = 1 /\ Len(groups) = 1
    /\ nCalls = 2 /\ calls = {} /\ failures = 0
    /\ groups[1].todos # store[1].todos
    /\ groups[1].todos \in OneChange(loadData[1].todos)

\* ------------------------------------------------------------------ C17
\* The store gives a request in flight its response.
Served == \E c \in calls : \E d \in calls' : c.st = "sent" /\ d.st = "served" /\ d.n = c.n

\* C17: the step that issues a request and the step in which the store
\* answers it change none of groups, groupInput and todoInputs, and groups
\* changes only in a step that adopts a response: a handler's continuation,
\* or the load chain adopting the list it fetched.
C17_NoOptimisticChange ==
    [][/\ (Sent # {} \/ Served) => UNCHANGED << groups, groupInput, todoInputs >>
       /\ groups' # groups
             => \/ \E c \in calls : Adopts(c)
                \/ loadPc = "then" /\ loadPc' = "finallyOk"]_vars

\* The store has created the group and the response is not adopted yet: the
\* page still shows the list and the title it had when addGroup was invoked.
C17_Witness ==
    \E c \in calls :
       /\ c.op = "addGroup" /\ c.st = "served"
       /\ groups = c.groups /\ trim(groupInput) = c.title
       /\ Len(store) = Len(groups) + 1

\* ------------------------------------------------------------------ C16
\* C16: adopting the response of a todo-level request for a group leaves
\* every other group as it was and where it was: the entries with another
\* id are the same, at the same positions, immediately after the step as
\* immediately before it.
C16_AdoptionTouchesOneGroup ==
    [][\A c \in calls :
          (TodoLevel(c) /\ Adopts(c))
             => /\ \A i \in 1..Len(groups) :
                      groups[i].id # c.groupId
                         => i \in 1..Len(groups') /\ groups'[i] = groups[i]
                /\ \A i \in 1..Len(groups') :
                      groups'[i].id # c.groupId
                         => i \in 1..Len(groups) /\ groups[i] = groups'[i]]_vars

\* ------------------------------------------------------------------ C18
\* C18: whenever the list has been loaded, no request is in flight and no
\* request has failed, the groups of the page are the groups of the store:
\* the same ids in the same order with the same todos.
C18_QuiescentPageEqualsStore ==
    (loadPc = "doneOk" /\ calls = {} /\ failures = 0) => groups = store

\* ------------------------------------------------------------------ C19
\* A deleteGroup of the group with this id has been adopted: the store has
\* had the group and lost it, no request has failed, and no deleteGroup of
\* it is still in flight.
DeleteAdopted(groupId) ==
    /\ groupId \in 1..(nextId - 1)
    /\ groupId \notin GroupIds(store)
    /\ failures = 0
    /\ \A c \in calls : ~(c.op = "deleteGroup" /\ c.groupId = groupId)

\* C19: once the completion of a deleteGroup is adopted and the group is
\* gone from the list, no step puts a group with that id into the list
\* again, the adoption of a response to an earlier request included.
C19_DeletedGroupStaysGone ==
    [][\A groupId \in 1..(nextId - 1) :
          (DeleteAdopted(groupId) /\ groupId \notin GroupIds(groups))
             => groupId \notin GroupIds(groups')]_vars

\* ------------------------------------------------------------------ C20
\* C20: adopting an addTodo response changes no input but the todo input of
\* its own group: the group input and the todo input of every other group
\* hold after the step what they held before it; adopting an addGroup
\* response leaves every todo input as it was.
C20_AdoptionKeepsOtherInputs ==
    [][\A c \in calls :
          Adopts(c) =>
             /\ c.op = "addTodo" =>
                   /\ groupInput' = groupInput
                   /\ \A g \in GroupIds(groups) \ {c.groupId} :
                         InputOf(todoInputs', g) = InputOf(todoInputs, g)
             /\ c.op = "addGroup" => todoInputs' = todoInputs]_vars

====
